---- MODULE Spec2Model ----
(***************************************************************************)
(* Model of index.py: TradeNetworkSolver (a networkx Graph, build_qubo,    *)
(* solve) and the main() pipeline around it.                               *)
(*                                                                         *)
(* Node identifiers are Python strings, modelled as sequences of code      *)
(* points so that Python's "<" on strings is computed, not assumed.        *)
(***************************************************************************)
EXTENDS Integers, Sequences, FiniteSets, TLC

VARIABLES
    pc,          \* position of the caller: "api" (class used directly) or a line of main()
    env_token,   \* os.getenv('DWAVE_TOKEN'): None, Some("") or Some(token)
    config,      \* main's local config
    constructed, \* TradeNetworkSolver.__init__ has completed
    G,           \* self.G, the networkx Graph
    adds,        \* number of add_trade_desire calls a user of the class has made
    Q,           \* value returned by the most recent build_qubo call (None before the first)
    lastOp,      \* name of the method or statement that ran last
    lastArgs,    \* arguments of the add_trade_desire call, when that ran last
    spc,         \* position inside solve(): "none", "built", "submitted", "sampled"
    sQ,          \* solve's local Q
    sReads,      \* num_reads of the solve call that ran last
    callG,       \* self.G as it was when the solve call that ran last began
    response,    \* the SampleSet the service returned to the solve call that ran last
    submitted,   \* the sample_qubo calls made by the solve call that ran last
    result,      \* value returned by the solve call that ran last
    exc,         \* exception raised by the operation that ran last
    out,         \* lines printed so far
    image,       \* trade_network_solution.png has been written
    tradeIdx,    \* number of example_trades processed by main's loop
    stages       \* pipeline stages main has completed, in order

vars == <<pc, env_token, config, constructed, G, adds, Q, lastOp, lastArgs, spc,
          sQ, sReads, callG, response, submitted, result, exc, out, image,
          tradeIdx, stages>>

\* Python's None and a present value, for variables that may hold either
None == <<>>
Some(x) == <<x>>
Val(o) == o[1]
\* the values Some(x) for x in S
SomeOf(S) == [{1} -> S]


----------------------------------------------------------------------------
(* Bounds of the model *)

MaxAdds == 3       \* add_trade_desire calls a user of the class makes
MaxSamples == 2    \* rows in a SampleSet returned by the service

----------------------------------------------------------------------------
(* Python values *)

\* the identifiers a user of the class passes: "a", "ab", "B" (code points)
Ids == { <<97>>, <<97, 98>>, <<66>> }

\* the identifiers main passes, as code points
Alice_Bike == <<65, 108, 105, 99, 101, 95, 66, 105, 107, 101>>
Bob_Laptop == <<66, 111, 98, 95, 76, 97, 112, 116, 111, 112>>
Charlie_Guitar == <<67, 104, 97, 114, 108, 105, 101, 95, 71, 117, 105, 116, 97, 114>>
David_Camera == <<68, 97, 118, 105, 100, 95, 67, 97, 109, 101, 114, 97>>

Min(a, b) == IF a < b THEN a ELSE b

Range(s) == {s[k] : k \in DOMAIN s}

Reverse(s) == [k \in 1..Len(s) |-> s[Len(s) + 1 - k]]

\* Python's str.__lt__: compare code points left to right; a proper prefix is smaller
RECURSIVE StrLessFrom(_, _, _)
StrLessFrom(a, b, k) ==
    IF k > Len(a) \/ k > Len(b) THEN Len(a) < Len(b)
    ELSE IF a[k] # b[k] THEN a[k] < b[k]
    ELSE StrLessFrom(a, b, k + 1)

\* a mutant of StrLess: shorter strings first
StrLessByLength(a, b) == Len(a) < Len(b)

StrLess(a, b) == StrLessFrom(a, b, 1)

\* dict assignment d[k] = v
Put(d, k, v) == [x \in (DOMAIN d) \cup {k} |-> IF x = k THEN v ELSE d[x]]

EmptyDict == [x \in {} |-> 0]

----------------------------------------------------------------------------
(* networkx.Graph as used by TradeNetworkSolver: nodes in insertion order,  *)
(* adj[u] the neighbours of u in insertion order with the edge attribute    *)

EmptyGraph == [nodes |-> <<>>, adj |-> EmptyDict]

HasNbr(row, v) == \E k \in DOMAIN row : row[k].nbr = v

\* a mutant of SetNbr: repeated insertions accumulate the weight
SetNbrAccumulate(row, v, w) ==
    IF HasNbr(row, v)
    THEN [k \in DOMAIN row |->
            IF row[k].nbr = v THEN [nbr |-> v, weight |-> row[k].weight + w] ELSE row[k]]
    ELSE Append(row, [nbr |-> v, weight |-> w])

\* adj[u][v] = {..., 'weight': w}: an existing entry keeps its place
SetNbr(row, v, w) ==
    IF HasNbr(row, v)
    THEN [k \in DOMAIN row |-> IF row[k].nbr = v THEN [nbr |-> v, weight |-> w] ELSE row[k]]
    ELSE Append(row, [nbr |-> v, weight |-> w])

add_node(g, u) ==
    IF u \in DOMAIN g.adj THEN g
    ELSE [nodes |-> Append(g.nodes, u), adj |-> Put(g.adj, u, <<>>)]

\* Graph.add_edge(u, v, weight=w)
add_edge(g, u, v, w) ==
    LET g2 == add_node(add_node(g, u), v)
        a1 == [g2.adj EXCEPT ![u] = SetNbr(@, v, w)]
        a2 == [a1 EXCEPT ![v] = SetNbr(@, u, w)]
    IN  [nodes |-> g2.nodes, adj |-> a2]

\* TradeNetworkSolver.add_trade_desire
add_trade_desire(g, owner_has, owner_wants) == add_edge(g, owner_has, owner_wants, 1)

----------------------------------------------------------------------------
(* build_qubo *)

\* sum(self.G[i][j]['weight'] for j in self.G.neighbors(i))
RECURSIVE SumWeights(_, _)
SumWeights(row, k) ==
    IF k > Len(row) THEN 0 ELSE row[k].weight + SumWeights(row, k + 1)

\* 2 * self.G[i][j]['weight']
OffDiagonal(w) == 2 * w

\* a mutant of Diagonal: the weighted degree without the sign
DiagonalPositive(row) == SumWeights(row, 1)

\* -sum(self.G[i][j]['weight'] for j in self.G.neighbors(i))
Diagonal(row) == -SumWeights(row, 1)

\* for j in self.G.neighbors(i): if i < j: Q[(i, j)] = 2 * weight
RECURSIVE NeighborLoop(_, _, _, _)
NeighborLoop(q, i, row, k) ==
    IF k > Len(row) THEN q
    ELSE LET j == row[k].nbr
             q1 == IF StrLess(i, j) THEN Put(q, <<i, j>>, OffDiagonal(row[k].weight)) ELSE q
         IN  NeighborLoop(q1, i, row, k + 1)

\* for i in self.G.nodes: ...
RECURSIVE NodeLoop(_, _, _)
NodeLoop(q, g, n) ==
    IF n > Len(g.nodes) THEN q
    ELSE LET i == g.nodes[n]
             q1 == Put(q, <<i, i>>, Diagonal(g.adj[i]))
         IN  NodeLoop(NeighborLoop(q1, i, g.adj[i], 1), g, n + 1)

build_qubo(g) ==
    LET Q0 == [key \in {<<i, i>> : i \in Range(g.nodes)} |-> 0]
    IN  NodeLoop(Q0, g, 1)

----------------------------------------------------------------------------
(* The annealing service behind self.sampler and the SampleSet it returns *)

DefaultNumReads == 1000

\* the num_reads a user of the class passes to solve
NumReadsChoices == {1, 2}

ValueError(msg) == [type |-> "ValueError", msg |-> msg]

\* an exception of any class that does not derive from ValueError
OtherError(msg) == [type |-> "Exception", msg |-> msg]

\* what sample_qubo may raise: EmbeddingComposite's ValueError, or a service failure
ServiceErrors == { ValueError(<<"no", "embedding", "found">>),
                   OtherError(<<"solver", "failed">>) }

Variables(q) == {key[1] : key \in DOMAIN q} \cup {key[2] : key \in DOMAIN q}

\* the identifiers of this model in ascending order:
\* "Alice_Bike" < "B" < "Bob_Laptop" < "Charlie_Guitar" < "David_Camera" < "a" < "ab"
IdentifierOrder == <<Alice_Bike, <<66>>, Bob_Laptop, Charlie_Guitar, David_Camera,
                     <<97>>, <<97, 98>> >>

Position(i) == CHOOSE k \in DOMAIN IdentifierOrder : IdentifierOrder[k] = i

Before(i, j) == Position(i) < Position(j)

\* the identifiers of S in ascending order
RECURSIVE SortedSeq(_)
SortedSeq(S) ==
    IF S = {} THEN <<>>
    ELSE LET m == CHOOSE x \in S : \A y \in S \ {x} : Before(x, y)
         IN  <<m>> \o SortedSeq(S \ {m})

\* energy of an assignment: sum over the keys (i, j) of Q[(i, j)] * x_i * x_j
RECURSIVE EnergyOver(_, _, _)
EnergyOver(q, keys, x) ==
    IF keys = {} THEN 0
    ELSE LET key == CHOOSE k \in keys : TRUE
         IN  q[key] * x[key[1]] * x[key[2]] + EnergyOver(q, keys \ {key}, x)

Energy(q, x) == EnergyOver(q, DOMAIN q, x)

Assignments(S) == [S -> {0, 1}]

SampleRows(q) == {[bits |-> x, energy |-> Energy(q, x)] : x \in Assignments(Variables(q))}

\* the SampleSets of m rows sample_qubo(q, ...) may return: a variable order and
\* the rows, each an assignment of the variables of q with its energy
SampleSets(q, m) ==
    LET sorted == SortedSeq(Variables(q))
    IN  [variables : {sorted, Reverse(sorted)}, rows : [1..m -> SampleRows(q)]]

\* the numbers of rows sample_qubo(..., num_reads=n) may return
RowCounts(n) == 0..Min(n, MaxSamples)

\* a mutant of FirstIndex: the row the service listed first
FirstIndexListed(rows) == 1

\* SampleSet.first: the row of lowest energy, the earliest listed among equals
FirstIndex(rows) ==
    CHOOSE k \in DOMAIN rows :
        /\ \A m \in DOMAIN rows : rows[k].energy <= rows[m].energy
        /\ \A m \in 1..(k - 1) : rows[m].energy > rows[k].energy

\* response.first.sample: the assignment as a mapping in the SampleSet's variable order
SampleOf(resp, k) ==
    [n \in 1..Len(resp.variables) |->
        <<resp.variables[n], resp.rows[k].bits[resp.variables[n]]>>]

----------------------------------------------------------------------------
(* TradeNetworkSolver.solve, statement by statement.  It is called from     *)
(* main (pc = "solve") or directly by a user of the class (pc = "api").     *)

\* where control goes when solve returns, and when an exception leaves it
AfterReturn == IF pc = "api" THEN "api" ELSE "report"
AfterRaise == IF pc = "api" THEN "api" ELSE "except"

\* main records the pipeline stage it has completed
Stage(s) == IF pc = "api" THEN stages ELSE Append(stages, s)

\* a mutant of SolveQubo: a QUBO built by an earlier call is reused
SolveQuboCached(g) == IF Q # None THEN Val(Q) ELSE build_qubo(g)

\* Q = self.build_qubo()
SolveQubo(g) == build_qubo(g)

\* def solve(self, num_reads=1000): Q = self.build_qubo()
SolveCall(n) ==
    /\ pc \in {"api", "solve"}
    /\ pc = "solve" => n = DefaultNumReads
    /\ spc = "none"
    /\ callG' = Some(G)
    /\ response' = None
    /\ sQ' = Some(SolveQubo(G))
    /\ Q' = Some(SolveQubo(G))
    /\ sReads' = n
    /\ submitted' = <<>>
    /\ spc' = "built"
    /\ result' = None
    /\ exc' = None
    /\ lastOp' = "solve"
    /\ lastArgs' = None
    /\ stages' = Stage("QuboBuilt")
    /\ UNCHANGED <<pc, env_token, config, constructed, G, adds, out, image, tradeIdx>>

\* self.sampler.sample_qubo(Q, num_reads=num_reads): the request goes out
SolveSubmit ==
    /\ spc = "built"
    /\ submitted' = Append(submitted, [Q |-> Val(sQ), num_reads |-> sReads])
    /\ spc' = "submitted"
    /\ stages' = Stage("Submitted")
    /\ UNCHANGED <<pc, env_token, config, constructed, G, adds, Q, lastOp, lastArgs, sQ,
                   sReads, callG, response, result, exc, out, image, tradeIdx>>

\* response = self.sampler.sample_qubo(...): the blocking call returns
ServiceReturn ==
    /\ spc = "submitted"
    /\ \E m \in RowCounts(sReads) : response' \in SomeOf(SampleSets(Val(sQ), m))
    /\ spc' = "sampled"
    /\ UNCHANGED <<pc, env_token, config, constructed, G, adds, Q, lastOp, lastArgs, sQ,
                   sReads, callG, submitted, result, exc, out, image, tradeIdx, stages>>

\* a mutant of ServiceRaise: a failed submission is sent once more
ServiceRaiseRetrying ==
    /\ spc = "submitted"
    /\ IF Len(submitted) < 2
       THEN /\ submitted' = Append(submitted, [Q |-> Val(sQ), num_reads |-> sReads])
            /\ stages' = Stage("Submitted")
            /\ UNCHANGED <<pc, spc, sQ, exc>>
       ELSE /\ \E e \in ServiceErrors : exc' = Some(e)
            /\ spc' = "none"
            /\ pc' = AfterRaise
            /\ sQ' = None
            /\ UNCHANGED <<submitted, stages>>
    /\ UNCHANGED <<env_token, config, constructed, G, adds, Q, lastOp, lastArgs,
                   sReads, callG, response, result, out, image, tradeIdx>>

\* the blocking call raises; solve does not catch, the exception leaves it
ServiceRaise ==
    /\ spc = "submitted"
    /\ \E e \in ServiceErrors : exc' = Some(e)
    /\ spc' = "none"
    /\ pc' = AfterRaise
    /\ sQ' = None
    /\ UNCHANGED <<env_token, config, constructed, G, adds, Q, lastOp, lastArgs, sReads,
                   callG, response, submitted, result, out, image, tradeIdx, stages>>

\* best_solution = response.first.sample; best_energy = response.first.energy;
\* return best_solution, best_energy.  SampleSet.first raises ValueError when
\* the SampleSet has no rows.
SolveReturn ==
    /\ spc = "sampled"
    /\ LET resp == Val(response)
       IN  IF Len(resp.rows) = 0
           THEN /\ exc' = Some(ValueError(<<"SampleSet", "is", "empty">>))
                /\ pc' = AfterRaise
                /\ UNCHANGED <<result, stages>>
           ELSE /\ result' = Some([sample |-> SampleOf(resp, FirstIndex(resp.rows)),
                                   energy |-> resp.rows[FirstIndex(resp.rows)].energy])
                /\ pc' = AfterReturn
                /\ stages' = Stage("SolutionReceived")
                /\ UNCHANGED exc
    /\ spc' = "none"
    /\ sQ' = None
    /\ UNCHANGED <<env_token, config, constructed, G, adds, Q, lastOp, lastArgs,
                   sReads, callG, response, submitted, out, image, tradeIdx>>

----------------------------------------------------------------------------
(* The class used directly: any interleaving of its three methods *)

\* solver.add_trade_desire(owner_has, owner_wants)
AddTradeDesire(owner_has, owner_wants) ==
    /\ pc = "api"
    /\ spc = "none"
    /\ adds < MaxAdds
    /\ G' = add_trade_desire(G, owner_has, owner_wants)
    /\ adds' = adds + 1
    /\ response' = None
    /\ lastOp' = "add_trade_desire"
    /\ lastArgs' = Some(<<owner_has, owner_wants>>)
    /\ sReads' = 0
    /\ callG' = None
    /\ submitted' = <<>>
    /\ result' = None
    /\ exc' = None
    /\ UNCHANGED <<pc, env_token, config, constructed, Q, spc, sQ, out, image, tradeIdx,
                   stages>>

\* solver.build_qubo()
BuildQubo ==
    /\ pc = "api"
    /\ spc = "none"
    /\ Q' = Some(build_qubo(G))
    /\ response' = None
    /\ lastOp' = "build_qubo"
    /\ lastArgs' = None
    /\ sReads' = 0
    /\ callG' = None
    /\ submitted' = <<>>
    /\ result' = None
    /\ exc' = None
    /\ UNCHANGED <<pc, env_token, config, constructed, G, adds, spc, sQ, out, image,
                   tradeIdx, stages>>

\* the state after solver = TradeNetworkSolver(config)
Init ==
    /\ pc = "api"
    /\ env_token = Some("secret")
    /\ config = None
    /\ constructed = TRUE
    /\ G = EmptyGraph
    /\ adds = 0
    /\ Q = None
    /\ lastOp = "__init__"
    /\ lastArgs = None
    /\ spc = "none"
    /\ sQ = None
    /\ sReads = 0
    /\ callG = None
    /\ response = None
    /\ submitted = <<>>
    /\ result = None
    /\ exc = None
    /\ out = <<>>
    /\ image = FALSE
    /\ tradeIdx = 0
    /\ stages = <<>>

Next ==
    \/ \E h \in Ids, w \in Ids : AddTradeDesire(h, w)
    \/ BuildQubo
    \/ \E n \in NumReadsChoices : SolveCall(n)
    \/ SolveSubmit
    \/ ServiceReturn
    \/ ServiceRaise
    \/ SolveReturn

Spec == Init /\ [][Next]_vars

----------------------------------------------------------------------------
(* main() *)

example_trades == << <<Alice_Bike, Bob_Laptop>>, <<Bob_Laptop, Charlie_Guitar>>,
                     <<Charlie_Guitar, David_Camera>>, <<David_Camera, Alice_Bike>> >>

DefaultEndpoint == "https://cloud.dwavesys.com/sapi"
DefaultSolver == "Advantage_system4.1"

\* not dwave_token
Falsy(token) == token = None \/ token = Some("")

\* a mutant of TokenMissing: only an unset variable counts as missing
TokenUnset(token) == token = None

\* if not dwave_token
TokenMissing(token) == Falsy(token)

TokenNotFound == ValueError(<<"DWAVE_TOKEN", "not", "found", "in", ".env", "file">>)

\* what TradeNetworkSolver(config) and visualize_solution may raise: any
\* exception, a ValueError among them
ConstructErrors == { ValueError(<<"bad", "solver">>),
                     OtherError(<<"solver", "not", "found">>) }
VisualizeErrors == { ValueError(<<"bad", "figsize">>),
                     OtherError(<<"backend", "gone">>) }

\* config = load_config(); DWAVE_ENDPOINT and DWAVE_SOLVER are not set
LoadConfig ==
    /\ pc = "start"
    /\ IF TokenMissing(env_token)
       THEN /\ exc' = Some(TokenNotFound)
            /\ pc' = "except"
            /\ UNCHANGED <<config, stages>>
       ELSE /\ config' = Some([token |-> Val(env_token), endpoint |-> DefaultEndpoint,
                               solver |-> DefaultSolver])
            /\ pc' = "construct"
            /\ stages' = Append(stages, "Configured")
            /\ UNCHANGED exc
    /\ lastOp' = "load_config"
    /\ UNCHANGED <<env_token, constructed, G, adds, Q, lastArgs, spc, sQ, sReads, callG,
                   response, submitted, result, out, image, tradeIdx>>

\* solver = TradeNetworkSolver(config): the sampler is connected, self.G is empty
ConstructSolver ==
    /\ pc = "construct"
    /\ constructed' = TRUE
    /\ G' = EmptyGraph
    /\ pc' = "add"
    /\ lastOp' = "__init__"
    /\ UNCHANGED <<env_token, config, adds, Q, lastArgs, spc, sQ, sReads, callG,
                   response, submitted, result, exc, out, image, tradeIdx, stages>>

\* DWaveSampler(...) raises
ConstructRaise ==
    /\ pc = "construct"
    /\ \E e \in ConstructErrors : exc' = Some(e)
    /\ pc' = "except"
    /\ lastOp' = "__init__"
    /\ UNCHANGED <<env_token, config, constructed, G, adds, Q, lastArgs, spc, sQ, sReads,
                   callG, response, submitted, result, out, image, tradeIdx, stages>>

\* for has, wants in example_trades: solver.add_trade_desire(has, wants)
MainAddTrade ==
    /\ pc = "add"
    /\ tradeIdx < Len(example_trades)
    /\ G' = add_trade_desire(G, example_trades[tradeIdx + 1][1],
                             example_trades[tradeIdx + 1][2])
    /\ tradeIdx' = tradeIdx + 1
    /\ lastOp' = "add_trade_desire"
    /\ lastArgs' = Some(example_trades[tradeIdx + 1])
    /\ IF tradeIdx' = Len(example_trades)
       THEN pc' = "solve" /\ stages' = Append(stages, "GraphBuilt")
       ELSE UNCHANGED <<pc, stages>>
    /\ UNCHANGED <<env_token, config, constructed, adds, Q, spc, sQ, sReads, callG,
                   response, submitted, result, exc, out, image>>

\* 'Trade' if group == 1 else 'Keep'
Label(group) == IF group = 1 THEN "Trade" ELSE "Keep"

\* for node, group in solution.items(): print(f"{node}: {...}")
NodeLines(sample) ==
    [k \in 1..Len(sample) |-> <<"{node}: {label}", <<sample[k][1], Label(sample[k][2])>> >>]

\* the prints between solve and visualize_solution
PrintReport ==
    /\ pc = "report"
    /\ out' = out \o << <<"Solution found:", <<>> >>, <<"--------------", <<>> >> >>
                  \o NodeLines(Val(result).sample)
                  \o << <<"Solution energy: {energy}", <<Val(result).energy>> >> >>
    /\ pc' = "visualize"
    /\ lastOp' = "print"
    /\ UNCHANGED <<env_token, config, constructed, G, adds, Q, lastArgs, spc, sQ, sReads,
                   callG, response, submitted, result, exc, image, tradeIdx, stages>>

\* solver.visualize_solution(solution) writes the image; main prints the confirmation
Visualize ==
    /\ pc = "visualize"
    /\ image' = TRUE
    /\ out' = Append(out, <<"Visualization saved as 'trade_network_solution.png'", <<>> >>)
    /\ pc' = "done"
    /\ stages' = Append(stages, "Rendered")
    /\ lastOp' = "visualize_solution"
    /\ UNCHANGED <<env_token, config, constructed, G, adds, Q, lastArgs, spc, sQ, sReads,
                   callG, response, submitted, result, exc, tradeIdx>>

\* solver.visualize_solution(solution) raises: before plt.savefig has written
\* the image, or after it (in plt.close); the confirmation is not printed
VisualizeRaise ==
    /\ pc = "visualize"
    /\ \E e \in VisualizeErrors : exc' = Some(e)
    /\ image' \in BOOLEAN
    /\ pc' = "except"
    /\ lastOp' = "visualize_solution"
    /\ UNCHANGED <<env_token, config, constructed, G, adds, Q, lastArgs, spc, sQ, sReads,
                   callG, response, submitted, result, out, tradeIdx, stages>>

\* except ValueError as e: print(f"Configuration error: {e}")
HandleValueError ==
    /\ pc = "except"
    /\ Val(exc).type = "ValueError"
    /\ out' = Append(out, <<"Configuration error: {e}", <<Val(exc).msg>> >>)
    /\ pc' = "aborted"
    /\ UNCHANGED <<env_token, config, constructed, G, adds, Q, lastOp, lastArgs, spc, sQ,
                   sReads, callG, response, submitted, result, exc, image, tradeIdx,
                   stages>>

\* except Exception as e: print(f"An error occurred: {e}")
HandleException ==
    /\ pc = "except"
    /\ Val(exc).type # "ValueError"
    /\ out' = Append(out, <<"An error occurred: {e}", <<Val(exc).msg>> >>)
    /\ pc' = "aborted"
    /\ UNCHANGED <<env_token, config, constructed, G, adds, Q, lastOp, lastArgs, spc, sQ,
                   sReads, callG, response, submitted, result, exc, image, tradeIdx,
                   stages>>

\* the state when main() is entered, for each content of the environment
MainInit ==
    /\ pc = "start"
    /\ env_token \in {None, Some(""), Some("secret")}
    /\ config = None
    /\ constructed = FALSE
    /\ G = EmptyGraph
    /\ adds = 0
    /\ Q = None
    /\ lastOp = "main"
    /\ lastArgs = None
    /\ spc = "none"
    /\ sQ = None
    /\ sReads = 0
    /\ callG = None
    /\ response = None
    /\ submitted = <<>>
    /\ result = None
    /\ exc = None
    /\ out = <<>>
    /\ image = FALSE
    /\ tradeIdx = 0
    /\ stages = <<>>

\* the statements of main and of the methods it calls
MainProgram ==
    \/ LoadConfig
    \/ ConstructSolver
    \/ ConstructRaise
    \/ MainAddTrade
    \/ SolveCall(DefaultNumReads)
    \/ SolveSubmit
    \/ SolveReturn
    \/ PrintReport
    \/ Visualize
    \/ VisualizeRaise
    \/ HandleValueError
    \/ HandleException

MainNext == MainProgram \/ ServiceReturn \/ ServiceRaise

MainSpec == MainInit /\ [][MainNext]_vars

\* main is one thread that runs every statement it reaches, and the blocking
\* service call does not hang: it raises unless it returns
FairMainSpec == MainSpec /\ WF_vars(MainProgram) /\ WF_vars(ServiceRaise)

----------------------------------------------------------------------------
(* What the graph holds, read independently of the order build_qubo walks it *)

Nodes(g) == Range(g.nodes)

Adjacent(g, u, v) == u \in DOMAIN g.adj /\ HasNbr(g.adj[u], v)

\* the edges as unordered pairs; a self-loop is the one-element set
Edges(g) == {{u, v} : u \in Nodes(g), v \in Nodes(g)} \cap
            {e \in SUBSET Nodes(g) : \E u \in e, v \in e : e = {u, v} /\ Adjacent(g, u, v)}

\* the weight attribute of the edge between u and v
WeightOf(g, u, v) == g.adj[u][CHOOSE k \in DOMAIN g.adj[u] : g.adj[u][k].nbr = v].weight

EdgeWeight(g, e) == LET u == CHOOSE x \in e : TRUE
                        v == CHOOSE y \in e : e = {u, y}
                    IN  WeightOf(g, u, v)

RECURSIVE SumEdgeWeights(_, _)
SumEdgeWeights(g, es) ==
    IF es = {} THEN 0
    ELSE LET e == CHOOSE x \in es : TRUE
         IN  EdgeWeight(g, e) + SumEdgeWeights(g, es \ {e})

\* sum of the weights of the edges incident to node i
IncidentWeight(g, i) == SumEdgeWeights(g, {e \in Edges(g) : i \in e})

\* total weight of the edges whose endpoints receive different bits
CutWeight(g, x) ==
    SumEdgeWeights(g, {e \in Edges(g) : \E u \in e, v \in e : x[u] # x[v]})

OffDiagonalKeys(q) == {key \in DOMAIN q : key[1] # key[2]}

\* the mapping the specification describes for graph g
ExpectedQubo(g) ==
    LET diag == {<<i, i>> : i \in Nodes(g)}
        off == {key \in Nodes(g) \X Nodes(g) :
                   key[1] # key[2] /\ Adjacent(g, key[1], key[2]) /\ Before(key[1], key[2])}
    IN  [key \in diag \cup off |->
            IF key[1] = key[2] THEN -IncidentWeight(g, key[1])
            ELSE 2 * WeightOf(g, key[1], key[2])]

\* Q is what build_qubo returned for the graph as it is now
JustBuilt == Q # None /\ lastOp \in {"build_qubo", "solve"}

----------------------------------------------------------------------------
(* Claims *)

\* C1: after any sequence of add_trade_desire calls, the mapping returned by
\* build_qubo has, for every node i, a diagonal entry (i, i) equal to the negative
\* of the sum of the weights of the edges incident to i.
C1_Diagonal ==
    JustBuilt =>
        \A i \in Nodes(G) :
            /\ <<i, i>> \in DOMAIN Val(Q)
            /\ Val(Q)[<<i, i>>] = -IncidentWeight(G, i)

\* build_qubo has returned for a graph with a node of two incident edges and a
\* node with a self-loop
C1_Witness ==
    /\ lastOp = "build_qubo"
    /\ \E i \in Nodes(G), j \in Nodes(G) :
          /\ i # j
          /\ Cardinality({e \in Edges(G) : i \in e}) = 2
          /\ Val(Q)[<<i, i>>] = -2
          /\ {j} \in Edges(G)

\* C2: the off-diagonal keys returned by build_qubo are exactly one key per edge
\* between distinct nodes: (i, j) with i before j in the identifier order, valued
\* twice the edge weight; the reversed key and keys of non-adjacent pairs are
\* absent, whatever the insertion order and orientation; the empty graph yields
\* the empty mapping.
C2_OffDiagonal ==
    JustBuilt =>
        /\ \A i \in Nodes(G), j \in Nodes(G) :
              i # j =>
                 IF Adjacent(G, i, j) /\ Before(i, j)
                 THEN /\ <<i, j>> \in DOMAIN Val(Q)
                      /\ Val(Q)[<<i, j>>] = 2 * WeightOf(G, i, j)
                      /\ <<j, i>> \notin DOMAIN Val(Q)
                 ELSE Adjacent(G, i, j) \/ <<i, j>> \notin DOMAIN Val(Q)
        /\ OffDiagonalKeys(Val(Q)) \subseteq Nodes(G) \X Nodes(G)
        /\ Cardinality(OffDiagonalKeys(Val(Q))) = Cardinality({e \in Edges(G) : Cardinality(e) = 2})
        /\ G = EmptyGraph => Val(Q) = EmptyDict

\* build_qubo has returned for a graph with two edges, one of them inserted
\* against the identifier order, and a pair of nodes that is not adjacent
C2_Witness ==
    /\ lastOp = "build_qubo"
    /\ Cardinality(OffDiagonalKeys(Val(Q))) = 2
    /\ \E key \in OffDiagonalKeys(Val(Q)) :
          \E m \in DOMAIN G.nodes, n \in DOMAIN G.nodes :
              m < n /\ G.nodes[m] = key[2] /\ G.nodes[n] = key[1]
    /\ \E i \in Nodes(G), j \in Nodes(G) : i # j /\ ~Adjacent(G, i, j)

\* C3: for every reachable graph (self-edges included) and every 0/1 assignment x,
\* the energy of x under the mapping returned by build_qubo equals the negative
\* of the total weight of the edges whose endpoints receive different bits.
C3_MaxCutEncoding ==
    JustBuilt =>
        \A x \in Assignments(Nodes(G)) : Energy(Val(Q), x) = -CutWeight(G, x)

\* C4: the graph holds at most one edge per unordered pair, every edge has
\* weight 1, and add_trade_desire(a, b) on a pair that is already joined (in
\* either orientation) leaves nodes, edges, weights and build_qubo's result
\* unchanged.
SingleEdges(g) ==
    /\ DOMAIN g.adj = Nodes(g)
    /\ \A m \in DOMAIN g.nodes, n \in DOMAIN g.nodes : g.nodes[m] = g.nodes[n] => m = n
    /\ \A u \in DOMAIN g.adj :
          /\ \A m \in DOMAIN g.adj[u], n \in DOMAIN g.adj[u] :
                g.adj[u][m].nbr = g.adj[u][n].nbr => m = n
          /\ \A m \in DOMAIN g.adj[u] :
                /\ g.adj[u][m].weight = 1
                /\ Adjacent(g, g.adj[u][m].nbr, u)

C4_Overwrite ==
    /\ [](SingleEdges(G))
    /\ [][ (/\ lastOp' = "add_trade_desire"
            /\ adds' = adds + 1
            /\ Adjacent(G, Val(lastArgs')[1], Val(lastArgs')[2]))
           => (G' = G /\ build_qubo(G') = build_qubo(G)) ]_vars

\* "a"--"ab" was added and then added again the other way round
C4_Witness ==
    /\ lastOp = "add_trade_desire"
    /\ adds = 2
    /\ lastArgs = Some(<< <<97, 98>>, <<97>> >>)
    /\ G.nodes = << <<97>>, <<97, 98>> >>
    /\ Edges(G) = { { <<97>>, <<97, 98>> } }

\* C10: every solve call submits exactly once, with the num_reads it was given,
\* the mapping build_qubo yields for the graph as it is when the call is made.
C10_FreshQubo ==
    callG # None =>
        /\ Val(callG) = G
        /\ IF spc = "built" THEN submitted = <<>>
           ELSE submitted = << [Q |-> ExpectedQubo(G), num_reads |-> sReads] >>

\* a solve call with num_reads 2 has submitted the QUBO of a three-node graph
\* built by three add_trade_desire calls
C10_Witness ==
    /\ spc = "submitted"
    /\ sReads = 2
    /\ adds = 3
    /\ Len(G.nodes) = 3
    /\ Len(submitted) = 1
    /\ Cardinality(OffDiagonalKeys(submitted[1].Q)) = 2

----------------------------------------------------------------------------
(* Claims about main() *)

Pipeline == <<"Configured", "GraphBuilt", "QuboBuilt", "Submitted", "SolutionReceived",
              "Rendered">>

IsPrefix(s, t) == Len(s) <= Len(t) /\ \A k \in DOMAIN s : s[k] = t[k]

ErrorLines ==
    {k \in DOMAIN out : out[k][1] \in {"Configuration error: {e}", "An error occurred: {e}"}}

\* a printed line is the f-string's text and the values of its fields;
\* these are the lines "<node>: Trade" and "<node>: Keep"
NodeLineIndexes == {k \in DOMAIN out : out[k][1] = "{node}: {label}"}

SolutionLines ==
    {k \in DOMAIN out :
        out[k][1] \in {"Solution found:", "{node}: {label}", "Solution energy: {energy}"}}

\* C6: with DWAVE_TOKEN unset or empty, load_config raises a configuration error
\* whose message contains "DWAVE_TOKEN"; main prints a configuration-error message
\* and ends without constructing the solver, adding a trade desire, building a
\* QUBO, submitting to the service or writing the image.
C6_MissingToken ==
    (env_token \in {None, Some("")} /\ pc # "start") =>
        /\ pc \in {"except", "aborted"}
        /\ exc # None
        /\ Val(exc).type = "ValueError"
        /\ "DWAVE_TOKEN" \in Range(Val(exc).msg)
        /\ ~constructed
        /\ G = EmptyGraph
        /\ tradeIdx = 0
        /\ Q = None
        /\ submitted = <<>>
        /\ ~image
        /\ pc = "aborted" => out = << <<"Configuration error: {e}", <<Val(exc).msg>> >> >>

\* main has ended after finding DWAVE_TOKEN set to the empty string
C6_Witness == pc = "aborted" /\ env_token = Some("")

\* C7: the report has one line per node of the solution, in the solution's node
\* order, "Trade" for bit 1 and "Keep" for bit 0, followed by the energy of the
\* lowest-energy sample the service returned, unmodified.
C7_Report ==
    (Len(out) > 0 /\ out[1][1] = "Solution found:") =>
        LET resp == Val(response)
            n == Len(resp.variables)
        IN  /\ Len(out) >= n + 3
            /\ NodeLineIndexes = 3..(n + 2)
            /\ \E b \in DOMAIN resp.rows :
                  /\ \A m \in DOMAIN resp.rows : resp.rows[b].energy <= resp.rows[m].energy
                  /\ \A k \in 1..n :
                        out[2 + k] = <<"{node}: {label}",
                                       <<resp.variables[k],
                                         IF resp.rows[b].bits[resp.variables[k]] = 1
                                         THEN "Trade" ELSE "Keep">> >>
                  /\ out[n + 3] = <<"Solution energy: {energy}", <<resp.rows[b].energy>> >>

\* the report was printed for a SampleSet whose lowest-energy row was listed
\* second, its variables in descending order, with both labels in the report
C7_Witness ==
    /\ pc = "done"
    /\ Len(Val(response).rows) = 2
    /\ Val(response).rows[1].energy > Val(response).rows[2].energy
    /\ Val(response).variables[1] = David_Camera
    /\ \E k \in NodeLineIndexes : out[k][2][2] = "Trade"
    /\ \E k \in NodeLineIndexes : out[k][2][2] = "Keep"

\* C8: a run reports a configuration error only when credential loading failed;
\* every failure raised after the configuration was loaded, whatever its
\* exception type, is reported as an unclassified error with its message.
C8_ClassifiedByOrigin ==
    pc = "aborted" =>
        /\ out[Len(out)][2] = <<Val(exc).msg>>
        /\ IF config = None
           THEN out[Len(out)][1] = "Configuration error: {e}"
           ELSE out[Len(out)][1] = "An error occurred: {e}"

\* C9: main is a strict linear pipeline: stages complete in order, each at most
\* once; a failure at Configured or at Submitted ends the run with no later stage,
\* no solution lines and no image, and the submission is not retried; every run
\* ends in Rendered or aborted after exactly one error message.
C9_State ==
    /\ IsPrefix(stages, Pipeline)
    /\ Len(submitted) <= 1
    /\ pc # "aborted" => ErrorLines = {}
    /\ pc = "done" => stages = Pipeline /\ image
    /\ pc = "aborted" =>
          /\ Cardinality(ErrorLines) = 1
          /\ Len(out) \in ErrorLines
          /\ stages # Pipeline
    /\ (pc \in {"except", "aborted"} /\ stages = <<>>) =>
          SolutionLines = {} /\ ~image /\ ~constructed /\ submitted = <<>>
    /\ (pc \in {"except", "aborted"} /\ stages = SubSeq(Pipeline, 1, 4)) =>
          SolutionLines = {} /\ ~image /\ Len(submitted) = 1 /\ result = None

C9_Step ==
    /\ stages' = stages \/ \E s \in Range(Pipeline) : stages' = Append(stages, s)
    /\ pc \in {"except", "aborted"} =>
          /\ pc' \in {"except", "aborted"}
          /\ stages' = stages /\ image' = image /\ submitted' = submitted
          /\ SolutionLines' = SolutionLines
    /\ pc \in {"done", "aborted"} => UNCHANGED vars

C9_Pipeline ==
    /\ []C9_State
    /\ [][C9_Step]_vars
    /\ <>(pc \in {"done", "aborted"})

\* the service call raised and main ended after the four stages up to Submitted
C9_Witness ==
    /\ pc = "aborted"
    /\ stages = <<"Configured", "GraphBuilt", "QuboBuilt", "Submitted">>
    /\ Len(submitted) = 1

====
